---- MODULE Spec2Model ----
(***************************************************************************)
(* A model of moltbot.py: the LifeAssistant task and reminder stores, the  *)
(* AgentCoordinator request router, daily statistics and autonomous        *)
(* heartbeat.  Time is the wall clock in whole seconds (int(time.time())). *)
(***************************************************************************)
EXTENDS Integers, Sequences, FiniteSets, TLC

\* ---------------------------------------------------------------- bounds
MaxAdvances == 1
MaxReminders == 4
MaxAdds == 2
MaxTasks == 3
MaxChatItems == 1
MaxPosts == 2
MaxElapses == 3
MaxStarts == 2
MaxBotTicks == 1
MaxBotReminders == 1

\* ------------------------------------------------------- time (seconds)
Hour == 3600
CheckInterval == 1800
Day == 86400
Week == 604800

AdvanceSteps == {Day, Week}

\* Python's None for the optional recurrence pattern
None == "None"

\* arguments of direct add_reminder calls
Messages == {"call mom"}
TriggerTimes == {0, Day}
\* (recurring, pattern) argument pairs: the enum values, a missing pattern, a
\* malformed one and an empty one
Recurrences == {<<FALSE, None>>, <<FALSE, "daily">>, <<TRUE, None>>, <<TRUE, "daily">>,
                <<TRUE, "weekly">>, <<TRUE, "monthly">>, <<TRUE, "hourly">>, <<TRUE, "">>}

\* arguments of direct add_task calls and of get_pending_tasks
Titles == {"buy milk"}
NoDate == -1
DueDates == {NoDate, Day, 2 * Day}
Priorities == {"medium", "high"}
Filters == {None, "medium", "high"}

\* datetime.max, later than every time of the model
DatetimeMax == 2147483647

\* BotConfig values: the feature toggle, the API key, the daily quotas
ApiKeys == {"", "key"}
Quotas == {1, 2}

\* outcomes of the calls to the social collaborator
CallOutcomes == {"ok", "raise"}
\* outcomes of the token request: status 200, another status, a failed request
AuthOutcomes == {"200", "401", "raise"}
\* the tokens the service hands out
Tokens == {"tok1", "tok2"}
\* the authenticated calls of the client
ClientCalls == {"create_post", "comment", "browse_feed", "upvote"}
\* no request sent yet
NoRequest == [call |-> None, token |-> None, token_expiry |-> NoDate, at |-> 0]
\* the clock steps of the running bot
BotSteps == {Hour, Day}
\* request texts given to chat while the heartbeat runs
BotRequests == {"Remind me to call mom", "Post to Moltbook"}
\* the clock steps between two calls of the client
ElapseSteps == {CheckInterval, Hour}
FeedOutcomes == {"posts", "empty", "raise"}

\* request texts given to process_user_request
Requests == {"Add task to search for recipes", "Remind me to call mom",
             "Search for posts", "Post to Moltbook", "Share my status",
             "What's my summary?", "Set a reminder", "Hello"}

VARIABLES
  now,          \* the wall clock, in seconds
  advances,     \* how many times the clock has been advanced
  reminders,    \* LifeAssistant.reminders
  parent,       \* history: parent[j] = index of the reminder whose firing created reminder j, 0 for none
  fired,        \* history: fired[i] = how many times reminder i was returned by a sweep
  adds,         \* history: number of direct add_reminder calls
  due,          \* result of the last check_reminders: indices into reminders, in order
  created,      \* history: indices of the reminders appended by the last check_reminders
  streak,       \* history: check_reminders calls in a row with no other operation between, capped at 2
  tasks,        \* LifeAssistant.tasks
  pending,      \* result of the last operation, when it was get_pending_tasks: indices into tasks, in order
  filter,       \* priority_filter of that get_pending_tasks
  found,        \* result of the last operation, when it was complete_task
  task_arg,     \* the task_id given to that complete_task
  config,       \* AgentCoordinator.config
  moltbook_client, \* AgentCoordinator.moltbook_client: None or the client
  daily_stats,  \* AgentCoordinator.daily_stats
  stats_before, \* history: daily_stats when the last coordinator operation began
  request,      \* the request of the last operation, when it was process_user_request
  response,     \* how that process_user_request ended: a str, None or a raised error
  calls,        \* history: the subsystem calls made by the last coordinator operation
  sent_today,   \* history: create_post calls made on the current calendar day
  token,        \* MoltbookClient.token
  token_expiry, \* MoltbookClient.token_expiry, NoDate for None
  sent,         \* history: the last request a client call put on the network
  is_running,   \* AIBot.is_running
  threads,      \* the heartbeat threads started so far, each with its position
  chat_pc,      \* position of the chat path: "idle", or "store" inside the += of posts_made
  chat_ref,     \* the statistics object the += has loaded (its generation)
  chat_val,     \* the posts_made the += has read
  stats_gen,    \* generation of the object self.daily_stats refers to
  discarded,    \* history: an increment was stored into a replaced statistics object
  began_after_stop, \* history: a heartbeat invocation began while is_running was false
  lastOp        \* name of the last operation

clockVars == <<now, advances>>
remVars == <<reminders, parent, fired, due, created, streak>>
taskVars == <<tasks, pending, filter, found, task_arg>>
lastVars == <<stats_before, request, response, calls>>
coordVars == <<config, moltbook_client, daily_stats, lastVars>>
clientVars == <<token, token_expiry, sent>>
chatVars == <<chat_pc, chat_ref, chat_val>>
botVars == <<is_running, threads, chatVars, stats_gen, discarded, began_after_stop>>
vars == <<clockVars, remVars, adds, taskVars, coordVars, sent_today, clientVars, botVars, lastOp>>

\* ------------------------------------------------------- LifeAssistant

\* a Reminder as constructed by add_reminder
Reminder(id, message, trigger_time, recurring, pattern) ==
  [id |-> id, message |-> message, trigger_time |-> trigger_time,
   recurring |-> recurring, recurrence_pattern |-> pattern,
   is_triggered |-> FALSE]

\* Python truthiness of an Optional[str]
Truthy(s) == s # None /\ s # ""

_calculate_next_occurrence_weeklyAsDaily(current, pattern) ==
  IF pattern = "daily" THEN current + Day
  ELSE IF pattern = "weekly" THEN current + Day
  ELSE IF pattern = "monthly" THEN current + 30 * Day
  ELSE current + Day

_calculate_next_occurrence_noMonthly(current, pattern) ==
  IF pattern = "daily" THEN current + Day
  ELSE IF pattern = "weekly" THEN current + Week
  ELSE current + Day

_calculate_next_occurrence(current, pattern) ==
  IF pattern = "daily" THEN current + Day
  ELSE IF pattern = "weekly" THEN current + Week
  ELSE IF pattern = "monthly" THEN current + 30 * Day
  ELSE current + Day

HasRecurrence_ignoresFlag(r) == Truthy(r.recurrence_pattern)

\* the condition under which check_reminders schedules a successor
HasRecurrence(r) == r.recurring /\ Truthy(r.recurrence_pattern)

IsDue_ignoresTriggered(r, t) == r.trigger_time <= t

\* the condition under which check_reminders fires a reminder
IsDue(r, t) == ~r.is_triggered /\ r.trigger_time <= t

RECURSIVE SweepLoop_resetsInPlace(_, _, _)
SweepLoop_resetsInPlace(i, st, t) ==
  IF i > Len(st.reminders) THEN st
  ELSE
    LET r == st.reminders[i] IN
    IF IsDue(r, t)
    THEN
      LET st1 == IF HasRecurrence(r)
                 THEN [reminders |->
                         [st.reminders EXCEPT
                            ![i].trigger_time =
                               _calculate_next_occurrence(r.trigger_time, r.recurrence_pattern)],
                       due |-> Append(st.due, i),
                       parent |-> st.parent]
                 ELSE [reminders |-> [st.reminders EXCEPT ![i].is_triggered = TRUE],
                       due |-> Append(st.due, i),
                       parent |-> st.parent]
      IN SweepLoop_resetsInPlace(i + 1, st1, t)
    ELSE SweepLoop_resetsInPlace(i + 1, st, t)

RECURSIVE SweepLoop_overSnapshot(_, _, _)
SweepLoop_overSnapshot(i, st, t) ==
  IF i > Len(reminders) THEN st
  ELSE
    LET r == st.reminders[i] IN
    IF IsDue(r, t)
    THEN
      LET marked == [st.reminders EXCEPT ![i].is_triggered = TRUE]
          st1 == IF HasRecurrence(r)
                 THEN [reminders |->
                         Append(marked,
                                Reminder(t, r.message,
                                         _calculate_next_occurrence(r.trigger_time, r.recurrence_pattern),
                                         TRUE, r.recurrence_pattern)),
                       due |-> Append(st.due, i),
                       parent |-> Append(st.parent, i)]
                 ELSE [reminders |-> marked,
                       due |-> Append(st.due, i),
                       parent |-> st.parent]
      IN SweepLoop_overSnapshot(i + 1, st1, t)
    ELSE SweepLoop_overSnapshot(i + 1, st, t)

\* The for-loop of check_reminders from list position i on.  The loop
\* iterates over the list it appends to, so reminders appended during the
\* sweep are visited by the same sweep.
RECURSIVE SweepLoop(_, _, _)
SweepLoop(i, st, t) ==
  IF i > Len(st.reminders) THEN st
  ELSE
    LET r == st.reminders[i] IN
    IF IsDue(r, t)
    THEN
      LET marked == [st.reminders EXCEPT ![i].is_triggered = TRUE]
          st1 == IF HasRecurrence(r)
                 THEN [reminders |->
                         Append(marked,
                                Reminder(t, r.message,
                                         _calculate_next_occurrence(r.trigger_time, r.recurrence_pattern),
                                         TRUE, r.recurrence_pattern)),
                       due |-> Append(st.due, i),
                       parent |-> Append(st.parent, i)]
                 ELSE [reminders |-> marked,
                       due |-> Append(st.due, i),
                       parent |-> st.parent]
      IN SweepLoop(i + 1, st1, t)
    ELSE SweepLoop(i + 1, st, t)

Sweep(rems, par, t) == SweepLoop(1, [reminders |-> rems, due |-> <<>>, parent |-> par], t)

\* number of occurrences of index i in a sequence of indices
Count(s, i) == Cardinality({k \in 1..Len(s) : s[k] = i})

\* a Task as constructed by add_task
Task(id, title, due_date, priority) ==
  [id |-> id, title |-> title, due_date |-> due_date, priority |-> priority,
   status |-> "pending"]

DueKey_noneFirst(t) == IF t.due_date = NoDate THEN 0 ELSE t.due_date

\* the sort key of get_pending_tasks: x.due_date or datetime.max
DueKey(t) == IF t.due_date = NoDate THEN DatetimeMax ELSE t.due_date

\* insertion of task index x into a list of indices sorted by DueKey, after
\* every index whose key is not larger (sorted() is stable)
RECURSIVE SortedInsert(_, _, _)
SortedInsert(ts, s, x) ==
  IF s = <<>> THEN <<x>>
  ELSE IF DueKey(ts[x]) < DueKey(ts[Head(s)]) THEN <<x>> \o s
  ELSE <<Head(s)>> \o SortedInsert(ts, Tail(s), x)

\* sorted(s, key=DueKey)
RECURSIVE Sorted(_, _)
Sorted(ts, s) ==
  IF s = <<>> THEN <<>>
  ELSE SortedInsert(ts, Sorted(ts, SubSeq(s, 1, Len(s) - 1)), s[Len(s)])

PendingTasks(ts, priority_filter) ==
  LET open == SelectSeq([i \in 1..Len(ts) |-> i], LAMBDA i : ts[i].status # "completed")
      kept == IF Truthy(priority_filter)
              THEN SelectSeq(open, LAMBDA i : ts[i].priority = priority_filter)
              ELSE open
  IN Sorted(ts, kept)

FirstWithId_ignoresId(ts, task_id) == IF Len(ts) > 0 THEN 1 ELSE 0

\* the index of the first task with the given id, 0 when there is none
FirstWithId(ts, task_id) ==
  IF \E i \in 1..Len(ts) : ts[i].id = task_id
  THEN CHOOSE i \in 1..Len(ts) :
         ts[i].id = task_id /\ \A k \in 1..(i - 1) : ts[k].id # task_id
  ELSE 0

\* generate_daily_summary: the three counts the summary text embeds
DailySummary(ts, rems) ==
  <<Cardinality({i \in 1..Len(ts) : ts[i].status = "pending"}),
    Cardinality({i \in 1..Len(ts) : ts[i].status = "pending" /\ ts[i].priority = "high"}),
    Cardinality({i \in 1..Len(rems) : ~rems[i].is_triggered})>>

\* ---------------------------------------------------- AgentCoordinator

\* a Python str as the sequence of its characters
Chars(s) ==
  CASE s = "Add task to search for recipes" ->
         <<"A", "d", "d", " ", "t", "a", "s", "k", " ", "t", "o", " ", "s", "e", "a", "r", "c", "h", " ", "f", "o", "r", " ", "r", "e", "c", "i", "p", "e", "s">>
    [] s = "Remind me to call mom" ->
         <<"R", "e", "m", "i", "n", "d", " ", "m", "e", " ", "t", "o", " ", "c", "a", "l", "l", " ", "m", "o", "m">>
    [] s = "Search for posts" ->
         <<"S", "e", "a", "r", "c", "h", " ", "f", "o", "r", " ", "p", "o", "s", "t", "s">>
    [] s = "Post to Moltbook" ->
         <<"P", "o", "s", "t", " ", "t", "o", " ", "M", "o", "l", "t", "b", "o", "o", "k">>
    [] s = "Share my status" ->
         <<"S", "h", "a", "r", "e", " ", "m", "y", " ", "s", "t", "a", "t", "u", "s">>
    [] s = "What's my summary?" ->
         <<"W", "h", "a", "t", "'", "s", " ", "m", "y", " ", "s", "u", "m", "m", "a", "r", "y", "?">>
    [] s = "Set a reminder" ->
         <<"S", "e", "t", " ", "a", " ", "r", "e", "m", "i", "n", "d", "e", "r">>
    [] s = "Hello" ->
         <<"H", "e", "l", "l", "o">>
    [] s = "task" ->
         <<"t", "a", "s", "k">>
    [] s = "todo" ->
         <<"t", "o", "d", "o">>
    [] s = "remind me" ->
         <<"r", "e", "m", "i", "n", "d", " ", "m", "e">>
    [] s = "add" ->
         <<"a", "d", "d">>
    [] s = "remind" ->
         <<"r", "e", "m", "i", "n", "d">>
    [] s = "search" ->
         <<"s", "e", "a", "r", "c", "h">>
    [] s = "find" ->
         <<"f", "i", "n", "d">>
    [] s = "look up" ->
         <<"l", "o", "o", "k", " ", "u", "p">>
    [] s = "what is" ->
         <<"w", "h", "a", "t", " ", "i", "s">>
    [] s = "how to" ->
         <<"h", "o", "w", " ", "t", "o">>
    [] s = "moltbook" ->
         <<"m", "o", "l", "t", "b", "o", "o", "k">>
    [] s = "post" ->
         <<"p", "o", "s", "t">>
    [] s = "share" ->
         <<"s", "h", "a", "r", "e">>
    [] s = "social" ->
         <<"s", "o", "c", "i", "a", "l">>
    [] s = "summary" ->
         <<"s", "u", "m", "m", "a", "r", "y">>
    [] s = "status" ->
         <<"s", "t", "a", "t", "u", "s">>
    [] s = "overview" ->
         <<"o", "v", "e", "r", "v", "i", "e", "w">>

UpperCase == <<"A", "B", "C", "D", "E", "F", "G", "H", "I", "J", "K", "L", "M",
               "N", "O", "P", "Q", "R", "S", "T", "U", "V", "W", "X", "Y", "Z">>
LowerCase == <<"a", "b", "c", "d", "e", "f", "g", "h", "i", "j", "k", "l", "m",
               "n", "o", "p", "q", "r", "s", "t", "u", "v", "w", "x", "y", "z">>

\* str.lower(), on the characters of a str
Lower(cs) ==
  [k \in 1..Len(cs) |->
     IF \E u \in 1..Len(UpperCase) : UpperCase[u] = cs[k]
     THEN LowerCase[CHOOSE u \in 1..Len(UpperCase) : UpperCase[u] = cs[k]]
     ELSE cs[k]]

\* word in request_lower: substring test
Contains(text, word) ==
  \E k \in 1..(Len(text) - Len(word) + 1) : SubSeq(text, k, k + Len(word) - 1) = word

\* any(word in request_lower for word in words)
AnyWord(text, words) ==
  \E w \in words : Contains(Lower(Chars(text)), Chars(w))

TaskWords == {"task", "todo", "remind me", "add"}
SearchWords == {"search", "find", "look up", "what is", "how to"}
SocialWords == {"moltbook", "post", "share", "social"}
SummaryWords == {"summary", "status", "overview"}

Route_searchFirst(text) ==
  IF AnyWord(text, SearchWords) THEN "search"
  ELSE IF AnyWord(text, TaskWords)
  THEN IF AnyWord(text, {"remind"}) THEN "reminder" ELSE "task"
  ELSE IF AnyWord(text, SocialWords) THEN "social"
  ELSE IF AnyWord(text, SummaryWords) THEN "summary"
  ELSE "conversational"

\* the if/elif chain of process_user_request: the branch that handles a request
Route(text) ==
  IF AnyWord(text, TaskWords)
  THEN IF AnyWord(text, {"remind"}) THEN "reminder" ELSE "task"
  ELSE IF AnyWord(text, SearchWords) THEN "search"
  ELSE IF AnyWord(text, SocialWords) THEN "social"
  ELSE IF AnyWord(text, SummaryWords) THEN "summary"
  ELSE "conversational"

\* Route, tabulated over the request texts
RouteOf == [r \in Requests |-> Route(r)]

\* datetime.now().date(): the calendar day of a time
Date(t) == t \div Day

ResetStats_keepsComments(stats, today) ==
  IF today # stats.last_reset
  THEN [posts_made |-> 0, comments_made |-> stats.comments_made,
        tasks_completed |-> 0, last_reset |-> today]
  ELSE stats

\* reset_daily_stats: the statistics after the call
ResetStats(stats, today) ==
  IF today # stats.last_reset
  THEN [posts_made |-> 0, comments_made |-> 0, tasks_completed |-> 0,
        last_reset |-> today]
  ELSE stats

MayComment_offByOne(stats, cfg) == stats.comments_made <= cfg.max_daily_comments

\* the comment quota test of autonomous_heartbeat
MayComment(stats, cfg) == stats.comments_made < cfg.max_daily_comments

\* the condition under which autonomous_heartbeat considers social activity
SocialGate(cfg, client, stats) ==
  cfg.enable_moltbook /\ client # None /\ stats.posts_made < cfg.max_daily_posts

\* a returned str, a returned None, a raised error
Str(value) == [kind |-> "str", value |-> value]
NoneResponse == [kind |-> "None", value |-> <<>>]
Raised == [kind |-> "raise", value |-> <<>>]

\* the acknowledgements _generate_conversational_response picks from
Acknowledgements == {"I understand", "Got it", "Acknowledged"}

\* ------------------------------------------------------------- initial state

\* the configurations: an API key is given only with the social feature on
\* (the key is not read when the feature is off)
Configs ==
  {c \in [enable_moltbook : BOOLEAN, moltbook_api_key : ApiKeys,
          max_daily_posts : Quotas, max_daily_comments : Quotas] :
     ~c.enable_moltbook => c.moltbook_api_key = ""}

\* the state after AgentCoordinator(config)
Init ==
  /\ now = 0
  /\ advances = 0
  /\ reminders = <<>>
  /\ parent = <<>>
  /\ fired = <<>>
  /\ adds = 0
  /\ due = <<>>
  /\ created = {}
  /\ streak = 0
  /\ tasks = <<>>
  /\ pending = <<>>
  /\ filter = None
  /\ found = FALSE
  /\ task_arg = 0
  /\ token = None
  /\ token_expiry = NoDate
  /\ sent = NoRequest
  /\ is_running = FALSE
  /\ threads = <<>>
  /\ chat_pc = "idle"
  /\ chat_ref = 0
  /\ chat_val = 0
  /\ stats_gen = 0
  /\ discarded = FALSE
  /\ began_after_stop = FALSE
  /\ config \in Configs
  /\ moltbook_client = IF config.enable_moltbook /\ config.moltbook_api_key # ""
                       THEN "client" ELSE None
  /\ daily_stats = [posts_made |-> 0, comments_made |-> 0, tasks_completed |-> 0,
                    last_reset |-> Date(now)]
  /\ stats_before = daily_stats
  /\ request = ""
  /\ response = NoneResponse
  /\ calls = {}
  /\ sent_today = 0
  /\ lastOp = "init"

\* the state after LifeAssistant(config), the social feature left off
InitLife ==
  /\ Init
  /\ config = [enable_moltbook |-> FALSE, moltbook_api_key |-> "",
               max_daily_posts |-> 1, max_daily_comments |-> 1]

\* ------------------------------------------------------------------ actions

\* the clock moves forward
Tick ==
  \E d \in AdvanceSteps :
    /\ advances < MaxAdvances
    /\ now' = now + d
    /\ advances' = advances + 1
    /\ sent_today' = IF Date(now + d) # Date(now) THEN 0 ELSE sent_today
    /\ lastOp' = "tick"
    /\ streak' = 0
    /\ stats_before' = daily_stats
    /\ request' = ""
    /\ response' = NoneResponse
    /\ calls' = {}
    /\ UNCHANGED <<botVars, clientVars, reminders, parent, fired, adds, due, created, taskVars,
                   config, moltbook_client, daily_stats>>

add_reminder ==
  \E m \in Messages, tt \in TriggerTimes, rp \in Recurrences :
    /\ adds < MaxAdds
    /\ Len(reminders) < MaxReminders
    /\ reminders' = Append(reminders, Reminder(now, m, tt, rp[1], rp[2]))
    /\ parent' = Append(parent, 0)
    /\ fired' = Append(fired, 0)
    /\ adds' = adds + 1
    /\ lastOp' = "add_reminder"
    /\ streak' = 0
    /\ UNCHANGED <<botVars, clientVars, clockVars, due, created, taskVars, coordVars, sent_today>>

\* the history of firings after a sweep that returned res_due
FiredAfter(res_reminders, res_due) ==
  [i \in 1..Len(res_reminders) |->
     (IF i <= Len(fired) THEN fired[i] ELSE 0) + Count(res_due, i)]

check_reminders ==
  LET res == Sweep(reminders, parent, now) IN
    /\ Len(res.reminders) <= MaxReminders
    /\ reminders' = res.reminders
    /\ parent' = res.parent
    /\ due' = res.due
    /\ created' = (Len(reminders) + 1)..Len(res.reminders)
    /\ fired' = FiredAfter(res.reminders, res.due)
    /\ lastOp' = "check_reminders"
    /\ streak' = IF streak < 2 THEN streak + 1 ELSE 2
    /\ UNCHANGED <<botVars, clientVars, clockVars, adds, taskVars, coordVars, sent_today>>

add_task ==
  \E title \in Titles, dd \in DueDates, prio \in Priorities :
    /\ Len(tasks) < MaxTasks
    /\ tasks' = Append(tasks, Task(now, title, dd, prio))
    /\ lastOp' = "add_task"
    /\ pending' = <<>>
    /\ filter' = None
    /\ found' = FALSE
    /\ task_arg' = 0
    /\ UNCHANGED <<botVars, clientVars, clockVars, remVars, adds, coordVars, sent_today>>

get_pending_tasks ==
  \E priority_filter \in Filters :
    /\ pending' = PendingTasks(tasks, priority_filter)
    /\ filter' = priority_filter
    /\ lastOp' = "get_pending_tasks"
    /\ found' = FALSE
    /\ task_arg' = 0
    /\ UNCHANGED <<botVars, clientVars, clockVars, remVars, adds, tasks, coordVars, sent_today>>

\* task ids a caller may pass: the ids the clock can have produced
complete_task ==
  \E task_id \in {tasks[i].id : i \in 1..Len(tasks)} \cup {now + 1} :
    LET i == FirstWithId(tasks, task_id) IN
      /\ tasks' = IF i # 0 THEN [tasks EXCEPT ![i].status = "completed"] ELSE tasks
      /\ found' = (i # 0)
      /\ task_arg' = task_id
      /\ lastOp' = "complete_task"
      /\ pending' = <<>>
      /\ filter' = None
      /\ UNCHANGED <<botVars, clientVars, clockVars, remVars, adds, coordVars, sent_today>>

reset_daily_stats ==
  /\ stats_before' = daily_stats
  /\ daily_stats' = ResetStats(daily_stats, Date(now))
  /\ lastOp' = "reset_daily_stats"
  /\ calls' = {}
  /\ request' = ""
  /\ response' = NoneResponse
  /\ UNCHANGED <<botVars, clientVars, clockVars, remVars, adds, taskVars, config, moltbook_client, sent_today>>

process_user_request ==
  \E req \in Requests :
    LET route == RouteOf[req] IN
      /\ request' = req
      /\ lastOp' = "process_user_request"
      /\ stats_before' = daily_stats
      /\ UNCHANGED <<botVars, clientVars, clockVars, adds, due, created, pending, filter, found, task_arg,
                     config, moltbook_client>>
      /\ IF route = "reminder"
         THEN /\ Len(reminders) < MaxReminders
              /\ Len(reminders) + Len(tasks) < MaxChatItems
              /\ reminders' = Append(reminders, Reminder(now, req, now + Hour, FALSE, None))
              /\ parent' = Append(parent, 0)
              /\ fired' = Append(fired, 0)
              /\ streak' = 0
              /\ response' = Str(<<"Reminder set", req>>)
              /\ calls' = {"add_reminder"}
              /\ UNCHANGED <<tasks, daily_stats, sent_today>>
         ELSE IF route = "task"
         THEN /\ Len(tasks) < MaxTasks
              /\ Len(reminders) + Len(tasks) < MaxChatItems
              /\ tasks' = Append(tasks, Task(now, req, NoDate, "medium"))
              /\ response' = Str(<<"Task added", req>>)
              /\ calls' = {"add_task"}
              /\ UNCHANGED <<reminders, parent, fired, streak, daily_stats, sent_today>>
         ELSE IF route = "search"
         THEN /\ response' = Str(<<"Search Results for", req>>)
              /\ calls' = {"search_information"}
              /\ UNCHANGED <<reminders, parent, fired, streak, tasks, daily_stats, sent_today>>
         ELSE IF route = "social"
         THEN /\ UNCHANGED <<reminders, parent, fired, streak, tasks>>
              /\ IF ~config.enable_moltbook
                 THEN /\ response' = Str(<<"Moltbook integration is currently disabled.">>)
                      /\ calls' = {}
                      /\ UNCHANGED <<daily_stats, sent_today>>
                 ELSE IF moltbook_client # None
                 THEN /\ daily_stats.posts_made < MaxPosts
                      /\ sent_today < MaxPosts
                      /\ calls' = {"create_post"}
                      /\ sent_today' = sent_today + 1
                      /\ \E post \in CallOutcomes :
                           IF post = "ok"
                           THEN /\ daily_stats' = [daily_stats EXCEPT !.posts_made = @ + 1]
                                /\ response' = Str(<<"Posted to Moltbook">>)
                           ELSE /\ response' = Raised
                                /\ UNCHANGED daily_stats
                 ELSE /\ response' = NoneResponse
                      /\ calls' = {}
                      /\ UNCHANGED <<daily_stats, sent_today>>
         ELSE IF route = "summary"
         THEN /\ response' = Str(<<"Daily Summary">> \o DailySummary(tasks, reminders))
              /\ calls' = {"generate_daily_summary"}
              /\ UNCHANGED <<reminders, parent, fired, streak, tasks, daily_stats, sent_today>>
         ELSE /\ \E ack \in Acknowledgements : response' = Str(<<ack>>)
              /\ calls' = {"_generate_conversational_response"}
              /\ UNCHANGED <<reminders, parent, fired, streak, tasks, daily_stats, sent_today>>

autonomous_heartbeat ==
  LET stats1 == ResetStats(daily_stats, Date(now))
      res == Sweep(reminders, parent, now)
  IN
    /\ Len(res.reminders) <= MaxReminders
    /\ reminders' = res.reminders
    /\ parent' = res.parent
    /\ due' = res.due
    /\ created' = (Len(reminders) + 1)..Len(res.reminders)
    /\ fired' = FiredAfter(res.reminders, res.due)
    /\ streak' = IF streak < 2 THEN streak + 1 ELSE 2
    /\ \/ \* the social part is skipped: gate closed, or random.random() >= 0.2
          /\ daily_stats' = stats1
          /\ calls' = {}
       \/ \* browse_feed is called: it raises, or returns an empty feed, or
          \* returns posts while the comment quota is used up
          /\ SocialGate(config, moltbook_client, stats1)
          /\ \E feed \in FeedOutcomes : feed = "posts" => ~MayComment(stats1, config)
          /\ daily_stats' = stats1
          /\ calls' = {"browse_feed"}
       \/ \* browse_feed returns posts and comment is called
          /\ SocialGate(config, moltbook_client, stats1)
          /\ MayComment(stats1, config)
          /\ calls' = {"browse_feed", "comment"}
          /\ \E comment \in CallOutcomes :
               daily_stats' = IF comment = "ok"
                              THEN [stats1 EXCEPT !.comments_made = @ + 1]
                              ELSE stats1
    /\ lastOp' = "autonomous_heartbeat"
    /\ stats_before' = daily_stats
    /\ request' = ""
    /\ response' = NoneResponse
    /\ UNCHANGED <<botVars, clientVars, clockVars, adds, taskVars, config, moltbook_client, sent_today>>

\* ------------------------------------------------------------ specifications

NextReminders == Tick \/ add_reminder \/ check_reminders

SpecReminders == InitLife /\ [][NextReminders]_vars

NextTasks == Tick \/ add_task \/ complete_task \/ get_pending_tasks

SpecTasks == InitLife /\ [][NextTasks]_vars

Next == Tick \/ process_user_request \/ autonomous_heartbeat \/ reset_daily_stats

Spec == Init /\ [][Next]_vars

\* ------------------------------------------------------------ MoltbookClient

\* the client's clock moves on between two calls
Elapse ==
  /\ advances < MaxElapses
  /\ \E d \in ElapseSteps : now' = now + d
  /\ advances' = advances + 1
  /\ lastOp' = "elapse"
  /\ UNCHANGED <<remVars, adds, taskVars, coordVars, sent_today, clientVars, botVars>>

\* MoltbookClient.authenticate under one outcome of the token request:
\* the token and its expiry afterwards, and the result
Authenticated(outcome, tok) ==
  IF outcome = "200"
  THEN [token |-> tok, token_expiry |-> now + Hour, result |-> TRUE]
  ELSE [token |-> token, token_expiry |-> token_expiry, result |-> FALSE]

\* the test of ensure_auth
NeedsAuth == ~Truthy(token) \/ now >= token_expiry

\* ensure_auth: authenticates when the token is missing or expired and
\* drops the result
EnsureAuth(outcome, tok) ==
  IF NeedsAuth
  THEN Authenticated(outcome, tok)
  ELSE [token |-> token, token_expiry |-> token_expiry, result |-> TRUE]

authenticate ==
  /\ \E outcome \in AuthOutcomes, tok \in Tokens :
       LET a == Authenticated(outcome, tok) IN
       /\ token' = a.token
       /\ token_expiry' = a.token_expiry
  /\ lastOp' = "authenticate"
  /\ UNCHANGED <<clockVars, remVars, adds, taskVars, coordVars, sent_today, sent, botVars>>

\* one authenticated call: ensure_auth, then the request with the Bearer
\* header built from self.token
ClientCall(call) ==
  /\ \E outcome \in AuthOutcomes, tok \in Tokens :
       LET a == EnsureAuth(outcome, tok) IN
       /\ token' = a.token
       /\ token_expiry' = a.token_expiry
       /\ sent' = [call |-> call, token |-> a.token,
                   token_expiry |-> a.token_expiry, at |-> now]
  /\ lastOp' = call
  /\ UNCHANGED <<clockVars, remVars, adds, taskVars, coordVars, sent_today, botVars>>

create_post == ClientCall("create_post")

comment == ClientCall("comment")

browse_feed == ClientCall("browse_feed")

upvote == ClientCall("upvote")

\* the coordinator of a bot with the social feature on and an API key
InitClient ==
  /\ Init
  /\ config = [enable_moltbook |-> TRUE, moltbook_api_key |-> "key",
               max_daily_posts |-> 1, max_daily_comments |-> 1]

NextClient ==
  Elapse \/ authenticate \/ create_post \/ comment \/ browse_feed \/ upvote

SpecClient == InitClient /\ [][NextClient]_vars

\* ---------------------------------------------- AIBot: chat and heartbeat loop
\* The main thread runs start, stop and chat; every start creates a thread
\* running _run_heartbeat_loop.  A thread's steps are the places where it
\* reads or writes what the other threads share.

\* the variables no step of the running bot changes (the return value of chat
\* is left to process_user_request above)
idleVars == <<adds, due, created, streak, taskVars, config, moltbook_client,
              lastVars, sent_today, sent>>

\* a thread at the head of _run_heartbeat_loop
NewThread == [pc |-> "test", idx |-> 0, t |-> 0, wake |-> 0, error |-> None]

\* the thread after the heartbeat returned: it sleeps for the check interval
Sleeping(th) == [th EXCEPT !.pc = "sleep", !.idx = 0, !.t = 0,
                           !.wake = now + CheckInterval]

OnHeartbeatError_propagates(th, call) ==
  [th EXCEPT !.pc = "crashed", !.idx = 0, !.t = 0, !.error = call]

\* the except clause of autonomous_heartbeat: the error is printed and the
\* heartbeat returns
OnHeartbeatError(th, call) == [Sleeping(th) EXCEPT !.error = call]

\* the clock of the running bot moves forward
BotTick ==
  /\ advances < MaxBotTicks
  /\ \E d \in BotSteps : now' = now + d
  /\ advances' = advances + 1
  /\ lastOp' = "tick"
  /\ UNCHANGED <<reminders, parent, fired, daily_stats, token, token_expiry,
                 botVars, idleVars>>

\* AIBot.start
start ==
  /\ chat_pc = "idle"
  /\ Len(threads) < MaxStarts
  /\ IF config.enable_moltbook /\ moltbook_client # None
     THEN \E outcome \in AuthOutcomes, tok \in Tokens :
            LET a == Authenticated(outcome, tok) IN
            /\ token' = a.token
            /\ token_expiry' = a.token_expiry
     ELSE UNCHANGED <<token, token_expiry>>
  /\ is_running' = TRUE
  /\ threads' = Append(threads, NewThread)
  /\ lastOp' = "start"
  /\ UNCHANGED <<clockVars, reminders, parent, fired, daily_stats, chatVars,
                 stats_gen, discarded, began_after_stop, idleVars>>

\* AIBot.stop
stop ==
  /\ chat_pc = "idle"
  /\ is_running' = FALSE
  /\ lastOp' = "stop"
  /\ UNCHANGED <<clockVars, reminders, parent, fired, daily_stats, token,
                 token_expiry, threads, chatVars, stats_gen, discarded,
                 began_after_stop, idleVars>>

\* (lastOp names the last operation of the main thread)

\* AIBot.chat up to the first place where the heartbeat thread can run in
\* between: a reminder request is finished, a post request has got its answer
\* from create_post and has loaded self.daily_stats and its posts_made
chat ==
  /\ chat_pc = "idle"
  /\ lastOp' = "chat"
  /\ UNCHANGED <<clockVars, token, token_expiry, is_running, threads, stats_gen,
                 discarded, began_after_stop, daily_stats, idleVars>>
  /\ \E req \in BotRequests :
       IF RouteOf[req] = "reminder"
       THEN /\ Len(reminders) < MaxBotReminders
            /\ reminders' = Append(reminders, Reminder(now, req, now + Hour, FALSE, None))
            /\ parent' = Append(parent, 0)
            /\ fired' = Append(fired, 0)
            /\ UNCHANGED chatVars
       ELSE /\ config.enable_moltbook /\ moltbook_client # None
            /\ daily_stats.posts_made < MaxPosts
            /\ UNCHANGED <<reminders, parent, fired>>
            /\ \E post \in CallOutcomes :
                 IF post = "ok"
                 THEN /\ chat_pc' = "store"
                      /\ chat_ref' = stats_gen
                      /\ chat_val' = daily_stats.posts_made
                 ELSE UNCHANGED chatVars

\* the store of self.daily_stats["posts_made"] += 1, into the object loaded
\* before
chat_increment ==
  /\ chat_pc = "store"
  /\ IF chat_ref = stats_gen
     THEN /\ daily_stats' = [daily_stats EXCEPT !.posts_made = chat_val + 1]
          /\ UNCHANGED discarded
     ELSE /\ discarded' = TRUE
          /\ UNCHANGED daily_stats
  /\ chat_pc' = "idle"
  /\ chat_ref' = 0
  /\ chat_val' = 0
  /\ UNCHANGED <<lastOp, clockVars, reminders, parent, fired, token, token_expiry,
                 is_running, threads, stats_gen, began_after_stop, idleVars>>

\* the test of `while self.is_running`
loop_test ==
  \E k \in 1..Len(threads) :
    /\ threads[k].pc = "test"
    /\ threads' = [threads EXCEPT ![k].pc = IF is_running THEN "begin" ELSE "done"]
    /\ UNCHANGED <<lastOp, clockVars, reminders, parent, fired, daily_stats, token,
                   token_expiry, is_running, chatVars, stats_gen, discarded,
                   began_after_stop, idleVars>>

\* the heartbeat invocation begins: reset_daily_stats, and check_reminders
\* reads the clock
heartbeat_begin ==
  \E k \in 1..Len(threads) :
    /\ threads[k].pc = "begin"
    /\ began_after_stop' = (began_after_stop \/ ~is_running)
    /\ daily_stats' = ResetStats(daily_stats, Date(now))
    /\ stats_gen' = IF Date(now) # daily_stats.last_reset THEN stats_gen + 1 ELSE stats_gen
    /\ threads' = [threads EXCEPT ![k] = [pc |-> "sweep", idx |-> 1, t |-> now,
                                          wake |-> 0, error |-> None]]
    /\ UNCHANGED <<lastOp, clockVars, reminders, parent, fired, token, token_expiry,
                   is_running, chatVars, discarded, idleVars>>

\* one test of the for-loop of check_reminders; at the end of the list the
\* heartbeat goes on to the social gate and its random choice
sweep_test ==
  \E k \in 1..Len(threads) :
    LET th == threads[k] IN
    /\ th.pc = "sweep"
    /\ IF th.idx <= Len(reminders)
       THEN threads' = [threads EXCEPT ![k] =
                          IF IsDue(reminders[th.idx], th.t)
                          THEN [th EXCEPT !.pc = "fire"]
                          ELSE [th EXCEPT !.idx = th.idx + 1]]
       ELSE IF SocialGate(config, moltbook_client, daily_stats)
            THEN \E browse \in BOOLEAN :
                   threads' = [threads EXCEPT ![k] =
                                 IF browse THEN [th EXCEPT !.pc = "browse", !.idx = 0, !.t = 0]
                                 ELSE Sleeping(th)]
            ELSE threads' = [threads EXCEPT ![k] = Sleeping(th)]
    /\ UNCHANGED <<lastOp, clockVars, reminders, parent, fired, daily_stats, token,
                   token_expiry, is_running, chatVars, stats_gen, discarded,
                   began_after_stop, idleVars>>

\* the body of the for-loop for a reminder found due: it is returned, marked
\* and, when recurring, followed by a successor
sweep_fire ==
  \E k \in 1..Len(threads) :
    LET th == threads[k]
        r == reminders[th.idx]
        marked == [reminders EXCEPT ![th.idx].is_triggered = TRUE]
    IN
    /\ th.pc = "fire"
    /\ IF HasRecurrence(r)
       THEN /\ Len(reminders) < MaxReminders
            /\ reminders' = Append(marked,
                    Reminder(now, r.message,
                             _calculate_next_occurrence(r.trigger_time, r.recurrence_pattern),
                             TRUE, r.recurrence_pattern))
            /\ parent' = Append(parent, th.idx)
            /\ fired' = Append([fired EXCEPT ![th.idx] = @ + 1], 0)
       ELSE /\ reminders' = marked
            /\ fired' = [fired EXCEPT ![th.idx] = @ + 1]
            /\ UNCHANGED parent
    /\ threads' = [threads EXCEPT ![k] = [th EXCEPT !.pc = "sweep", !.idx = th.idx + 1]]
    /\ UNCHANGED <<lastOp, clockVars, daily_stats, token, token_expiry, is_running,
                   chatVars, stats_gen, discarded, began_after_stop, idleVars>>

\* await browse_feed() and the comment quota test
social_browse ==
  \E k \in 1..Len(threads) :
    LET th == threads[k] IN
    /\ th.pc = "browse"
    /\ \E feed \in FeedOutcomes :
         threads' = [threads EXCEPT ![k] =
                       IF feed = "raise" THEN OnHeartbeatError(th, "browse_feed")
                       ELSE IF feed = "posts" /\ MayComment(daily_stats, config)
                            THEN [th EXCEPT !.pc = "comment"]
                            ELSE Sleeping(th)]
    /\ UNCHANGED <<lastOp, clockVars, reminders, parent, fired, daily_stats, token,
                   token_expiry, is_running, chatVars, stats_gen, discarded,
                   began_after_stop, idleVars>>

\* await comment() and the increment of comments_made
social_comment ==
  \E k \in 1..Len(threads) :
    LET th == threads[k] IN
    /\ th.pc = "comment"
    /\ \E outcome \in CallOutcomes :
         IF outcome = "ok"
         THEN /\ daily_stats' = [daily_stats EXCEPT !.comments_made = @ + 1]
              /\ threads' = [threads EXCEPT ![k] = Sleeping(th)]
         ELSE /\ threads' = [threads EXCEPT ![k] = OnHeartbeatError(th, "comment")]
              /\ UNCHANGED daily_stats
    /\ UNCHANGED <<lastOp, clockVars, reminders, parent, fired, token, token_expiry,
                   is_running, chatVars, stats_gen, discarded, began_after_stop,
                   idleVars>>

\* time.sleep returns
loop_sleep ==
  \E k \in 1..Len(threads) :
    /\ threads[k].pc = "sleep"
    /\ now >= threads[k].wake
    /\ threads' = [threads EXCEPT ![k] = NewThread]
    /\ UNCHANGED <<lastOp, clockVars, reminders, parent, fired, daily_stats, token,
                   token_expiry, is_running, chatVars, stats_gen, discarded,
                   began_after_stop, idleVars>>

\* AIBot(config) with the social feature on and an API key
InitBot ==
  /\ Init
  /\ config = [enable_moltbook |-> TRUE, moltbook_api_key |-> "key",
               max_daily_posts |-> 2, max_daily_comments |-> 1]

NextBot ==
  \/ BotTick \/ start \/ stop \/ chat \/ chat_increment
  \/ loop_test \/ heartbeat_begin \/ sweep_test \/ sweep_fire
  \/ social_browse \/ social_comment \/ loop_sleep

SpecBot == InitBot /\ [][NextBot]_vars

\* ------------------------------------------------------------ reminders: claims

Range(s) == {s[k] : k \in 1..Len(s)}
Successors(i) == {j \in 1..Len(reminders) : parent[j] = i}
IsWeekly(r) == r.recurring /\ r.recurrence_pattern = "weekly"

\* C1: every reminder instance is returned by at most one sweep (and once by
\* that sweep), and a sweep that directly follows another sweep at the same
\* clock value returns nothing.
C1_AtMostOnce ==
  /\ \A i \in 1..Len(reminders) : fired[i] <= 1
  /\ streak >= 2 => due = <<>>

C1_Witness ==
  /\ streak = 2
  /\ due = <<>>
  /\ \E i \in 1..Len(reminders) : fired[i] = 1 /\ reminders[i].recurring

\* C2 as claimed: a fired weekly reminder has exactly one successor, at
\* trigger_time + 7 days with the same pattern, and that successor is
\* untriggered when the sweep in which the original fired returns, whatever
\* the sweep's now; the original stays triggered and has fired once.
C2_Original ==
  lastOp = "check_reminders" =>
    \A i \in Range(due) :
      IsWeekly(reminders[i]) =>
        /\ reminders[i].is_triggered
        /\ fired[i] = 1
        /\ Cardinality(Successors(i)) = 1
        /\ \A j \in Successors(i) :
             /\ reminders[j].trigger_time = reminders[i].trigger_time + 7 * Day
             /\ reminders[j].recurrence_pattern = "weekly"
             /\ ~reminders[j].is_triggered

\* C2 amended: a fired weekly reminder has exactly one successor, at
\* trigger_time + 7 days with the same pattern and recurring; when the sweep in
\* which the original fired returns, the successor is untriggered if it is not
\* yet due (now < T + 7 days) and has itself been fired by that sweep
\* otherwise; the original stays triggered and is returned by no later sweep.
C2_WeeklySuccessor ==
  /\ \A i \in 1..Len(reminders) :
       IsWeekly(reminders[i]) /\ fired[i] >= 1 =>
         /\ reminders[i].is_triggered
         /\ fired[i] = 1
         /\ Cardinality(Successors(i)) = 1
         /\ \A j \in Successors(i) :
              /\ reminders[j].trigger_time = reminders[i].trigger_time + 7 * Day
              /\ reminders[j].recurrence_pattern = "weekly"
              /\ reminders[j].recurring
  /\ lastOp = "check_reminders" =>
       \A i \in Range(due) :
         IsWeekly(reminders[i]) =>
           \A j \in Successors(i) :
             /\ reminders[j].is_triggered <=> reminders[i].trigger_time + 7 * Day <= now
             /\ reminders[j].is_triggered <=> j \in Range(due)

C2_Witness ==
  /\ lastOp = "check_reminders"
  /\ \E i \in Range(due) :
       /\ IsWeekly(reminders[i])
       /\ now > reminders[i].trigger_time
       /\ \E j \in Successors(i) :
            /\ ~reminders[j].is_triggered
            /\ reminders[j].trigger_time = reminders[i].trigger_time + 7 * Day

\* C3: the successor of a fired recurring reminder is scheduled at the fired
\* reminder's own trigger_time plus 1 day (daily), 7 days (weekly) or 30 days
\* (monthly), whatever the clock value of the sweep.
C3_SuccessorOffset ==
  \A j \in 1..Len(reminders) :
    parent[j] # 0 =>
      LET r == reminders[parent[j]] IN
        /\ r.recurrence_pattern = "daily" => reminders[j].trigger_time = r.trigger_time + Day
        /\ r.recurrence_pattern = "weekly" => reminders[j].trigger_time = r.trigger_time + 7 * Day
        /\ r.recurrence_pattern = "monthly" => reminders[j].trigger_time = r.trigger_time + 30 * Day

C3_Witness ==
  /\ lastOp = "check_reminders"
  /\ \E j \in created :
       /\ reminders[parent[j]].recurrence_pattern = "monthly"
       /\ reminders[parent[j]].trigger_time < now
       /\ reminders[j].trigger_time = reminders[parent[j]].trigger_time + 30 * Day

\* C4: a non-recurring reminder that fires is returned exactly once and gets
\* no successor, and a sweep in which only non-recurring reminders fire
\* leaves the number of reminders in the store unchanged.
C4_NonRecurring ==
  /\ \A i \in 1..Len(reminders) :
       ~reminders[i].recurring => Successors(i) = {} /\ fired[i] <= 1
  /\ lastOp = "check_reminders" =>
       /\ \A i \in Range(due) : ~reminders[i].recurring => Count(due, i) = 1
       /\ (\A i \in Range(due) : ~reminders[i].recurring) => created = {}

C4_Witness ==
  /\ lastOp = "check_reminders"
  /\ due = <<1>>
  /\ ~reminders[1].recurring
  /\ reminders[1].recurrence_pattern # None
  /\ reminders[1].trigger_time < now
  /\ Len(reminders) = 2
  /\ created = {}

\* ---------------------------------------------------------- coordinator: claims

\* C5: comments_made never exceeds max_daily_comments.
C5_CommentQuota == daily_stats.comments_made <= config.max_daily_comments

C5_Witness ==
  /\ lastOp = "autonomous_heartbeat"
  /\ daily_stats.last_reset = Date(now)
  /\ stats_before.comments_made = config.max_daily_comments
  /\ daily_stats.comments_made = config.max_daily_comments
  /\ calls = {"browse_feed"}

\* C6 as claimed: the daily post quota is enforced on the chat path: neither
\* posts_made nor the number of create_post calls made on one day exceeds
\* max_daily_posts.
C6_PostQuota ==
  /\ daily_stats.posts_made <= config.max_daily_posts
  /\ sent_today <= config.max_daily_posts

\* C7: reset_daily_stats called on a date other than last_reset zeroes
\* posts_made and comments_made and sets last_reset to the current date,
\* whatever the counters were; called on the date last_reset it changes nothing.
C7_Reset ==
  lastOp = "reset_daily_stats" =>
    IF Date(now) # stats_before.last_reset
    THEN /\ daily_stats.posts_made = 0
         /\ daily_stats.comments_made = 0
         /\ daily_stats.last_reset = Date(now)
    ELSE daily_stats = stats_before

C7_Witness ==
  /\ lastOp = "reset_daily_stats"
  /\ Date(now) # stats_before.last_reset
  /\ stats_before.posts_made > 0
  /\ stats_before.comments_made > 0
  /\ daily_stats.posts_made = 0
  /\ daily_stats.comments_made = 0
  /\ daily_stats.last_reset = Date(now)

\* C8 as claimed: process_user_request returns a string and raises no error,
\* for every request and every configuration.
C8_AlwaysString == lastOp = "process_user_request" => response.kind = "str"

\* the routing rules in their order of precedence, and the subsystem calls
\* that belong to each
RuleWords ==
  <<{"task", "todo", "remind me", "add"},
    {"search", "find", "look up", "what is", "how to"},
    {"moltbook", "post", "share", "social"},
    {"summary", "status", "overview"}>>
RuleCalls ==
  <<{"add_task", "add_reminder"}, {"search_information"}, {"create_post"},
    {"generate_daily_summary"}, {"_generate_conversational_response"}>>
MatchingRules(text) == {r \in 1..4 : AnyWord(text, RuleWords[r])}
FirstRule(text) ==
  IF MatchingRules(text) = {} THEN 5
  ELSE CHOOSE r \in MatchingRules(text) : \A q \in MatchingRules(text) : r <= q
FirstRuleOf == [r \in Requests |-> FirstRule(r)]
RulesMatched == [r \in Requests |-> Cardinality(MatchingRules(r))]

\* C9: a request is handled only by the earliest rule, in the order task,
\* search, social, summary, conversational, whose keywords it contains: the
\* calls it makes are calls of that rule, and only the social rule changes the
\* daily statistics.
C9_FirstMatch ==
  lastOp = "process_user_request" =>
    /\ calls \subseteq RuleCalls[FirstRuleOf[request]]
    /\ FirstRuleOf[request] # 3 => calls # {}
    /\ FirstRuleOf[request] # 3 => daily_stats = stats_before

C9_Witness ==
  /\ lastOp = "process_user_request"
  /\ request = "Add task to search for recipes"
  /\ RulesMatched[request] >= 2
  /\ calls = {"add_task"}
  /\ Len(tasks) = 1
  /\ tasks[1].title = request

\* the tasks get_pending_tasks is to return for a filter
Wanted(priority_filter) ==
  {i \in 1..Len(tasks) :
     /\ tasks[i].status # "completed"
     /\ priority_filter # None => tasks[i].priority = priority_filter}

\* C10: get_pending_tasks returns exactly the non-completed tasks (of the
\* filter's priority when a filter is given), each once, those with a due date
\* in ascending order of due date and those without after all of them.
C10_PendingOrder ==
  lastOp = "get_pending_tasks" =>
    /\ Range(pending) = Wanted(filter)
    /\ Len(pending) = Cardinality(Wanted(filter))
    /\ \A a, b \in 1..Len(pending) :
         a < b =>
           LET x == tasks[pending[a]]
               y == tasks[pending[b]]
           IN y.due_date # NoDate =>
                x.due_date # NoDate /\ x.due_date <= y.due_date

C10_Witness ==
  /\ lastOp = "get_pending_tasks"
  /\ Len(tasks) = 3
  /\ tasks[2].status = "completed"
  /\ tasks[1].due_date = NoDate
  /\ tasks[3].due_date # NoDate
  /\ filter = "high"
  /\ pending = <<3, 1>>

\* ------------------------------------------------------ stores: further claims

\* C11: complete_task returns true exactly when a task with the given id
\* exists, and then a task with that id is completed; for an id that matches
\* no task it returns false and changes no task.  Tasks with other ids are
\* never changed and no task is added or removed.
C11_CompleteTask ==
  [][lastOp' = "complete_task" =>
       /\ found' <=> \E i \in 1..Len(tasks) : tasks[i].id = task_arg'
       /\ Len(tasks') = Len(tasks)
       /\ found' => \E i \in 1..Len(tasks) :
                      tasks'[i].id = task_arg' /\ tasks'[i].status = "completed"
       /\ ~found' => tasks' = tasks
       /\ \A i \in 1..Len(tasks) : tasks[i].id # task_arg' => tasks'[i] = tasks[i]]_vars

C11_Witness ==
  /\ lastOp = "complete_task"
  /\ found
  /\ Len(tasks) = 2
  /\ tasks[1].id # tasks[2].id
  /\ tasks[2].id = task_arg
  /\ tasks[2].status = "completed"
  /\ tasks[1].status = "pending"

\* C12 as claimed: no two tasks share an id and no two reminders share an id.
C12_UniqueIds ==
  /\ \A i, j \in 1..Len(tasks) : i # j => tasks[i].id # tasks[j].id
  /\ \A i, j \in 1..Len(reminders) : i # j => reminders[i].id # reminders[j].id

\* C16 as claimed: whenever an operation has incremented or tested a daily
\* counter, last_reset is the current calendar date.
C16_Reconciled ==
  /\ lastOp = "autonomous_heartbeat" => daily_stats.last_reset = Date(now)
  /\ (lastOp = "process_user_request" /\ daily_stats.posts_made # stats_before.posts_made)
       => daily_stats.last_reset = Date(now)

\* C17 as claimed: every reminder with recurring=true has a non-null
\* recurrence_pattern.
C17_RecurringHasPattern ==
  \A i \in 1..Len(reminders) :
    reminders[i].recurring => reminders[i].recurrence_pattern # None

\* C18 as claimed: a fired recurring reminder whose pattern is none of daily,
\* weekly, monthly (an empty or missing pattern included) has a successor
\* scheduled at its trigger_time + 1 day.
C18_MalformedDaily ==
  \A i \in 1..Len(reminders) :
    (/\ reminders[i].recurring
     /\ reminders[i].recurrence_pattern \notin {"daily", "weekly", "monthly"}
     /\ fired[i] >= 1)
      => \E j \in Successors(i) :
           reminders[j].trigger_time = reminders[i].trigger_time + Day

\* C20: a triggered reminder stays triggered; no reminder's id, message,
\* trigger_time, recurring flag or pattern ever changes; reminders are only
\* appended to the store, never removed.
C20_TriggeredTerminal ==
  [][/\ Len(reminders') >= Len(reminders)
     /\ \A i \in 1..Len(reminders) :
          /\ reminders[i].is_triggered => reminders'[i].is_triggered
          /\ reminders'[i].id = reminders[i].id
          /\ reminders'[i].message = reminders[i].message
          /\ reminders'[i].trigger_time = reminders[i].trigger_time
          /\ reminders'[i].recurring = reminders[i].recurring
          /\ reminders'[i].recurrence_pattern = reminders[i].recurrence_pattern]_vars

C20_Witness ==
  /\ lastOp = "check_reminders"
  /\ created # {}
  /\ \E i \in 1..Len(reminders) :
       /\ reminders[i].is_triggered
       /\ i \notin Range(due)
       /\ HasRecurrence(reminders[i])
       /\ Successors(i) \subseteq Range(due)
       /\ Successors(i) # {}

\* ------------------------------------------------------ MoltbookClient: claims

\* C19 as claimed: every request of an authenticated call goes out with a
\* present token that has not expired at the time of sending.
C19_ValidToken ==
  sent.call # None => (Truthy(sent.token) /\ sent.at < sent.token_expiry)

\* ---------------------------------------------------------------- AIBot: claims

\* C13 as claimed: no increment of posts_made is stored into a statistics
\* object that a daily reset has replaced, and no reminder is fired twice.
C13_NoLostUpdate ==
  /\ ~discarded
  /\ \A i \in 1..Len(fired) : fired[i] <= 1

\* C14 as claimed: after stop() the bot is not running and no heartbeat
\* invocation begins while is_running is false.
C14_NoBeginAfterStop ==
  /\ lastOp = "stop" => ~is_running
  /\ ~began_after_stop

\* C15: a failure of browse_feed or comment is caught inside the heartbeat:
\* the thread goes on to its sleep, comments_made is not incremented by the
\* failed step, and from the sleep the loop returns to its test; no thread
\* ends by an error.
C15_FailureCaught ==
  [][\A k \in 1..Len(threads) :
       /\ (threads[k].pc \in {"browse", "comment"} /\ threads'[k].error # None)
            => /\ threads'[k].pc = "sleep"
               /\ daily_stats'.comments_made = daily_stats.comments_made
       /\ (threads[k].pc = "sleep" /\ threads'[k].pc # "sleep")
            => threads'[k].pc = "test"
       /\ threads'[k].pc # "crashed"]_vars

C15_Witness ==
  \E k \in 1..Len(threads) :
    /\ threads[k].error = "comment"
    /\ threads[k].pc = "sleep"
    /\ daily_stats.comments_made = 0

\* ------------------------------------------------------ reminders: catch-up

\* C21: check_reminders terminates for every store and every now (the sweep
\* of any reachable store has a result, and every successor is scheduled
\* strictly later than the reminder it follows), and its result holds no
\* untriggered reminder with trigger_time <= now; a successor created by a
\* sweep that is itself already due is fired by the same sweep and, being
\* recurring, gets its own successor in that sweep.
C21_CatchUp ==
  /\ LET res == Sweep(reminders, parent, now) IN
       /\ Len(res.reminders) >= Len(reminders)
       /\ \A i \in 1..Len(res.reminders) :
            res.reminders[i].is_triggered \/ res.reminders[i].trigger_time > now
  /\ lastOp = "check_reminders" =>
       /\ \A i \in 1..Len(reminders) :
            reminders[i].is_triggered \/ reminders[i].trigger_time > now
       /\ \A j \in created :
            /\ reminders[j].trigger_time > reminders[parent[j]].trigger_time
            /\ reminders[j].trigger_time <= now =>
                 /\ j \in Range(due)
                 /\ Successors(j) \cap created # {}

C21_Witness ==
  /\ lastOp = "check_reminders"
  /\ \E i \in Range(due) :
       /\ i \notin created
       /\ \E j \in Successors(i) \cap created :
            /\ j \in Range(due)
            /\ \E k \in Successors(j) \cap created : ~reminders[k].is_triggered

\* ------------------------------------------------------- AIBot: loop instances

\* the positions of a thread inside an invocation of autonomous_heartbeat
InHeartbeat == {"sweep", "fire", "browse", "comment"}

\* the threads that are inside a heartbeat invocation
Running == {k \in 1..Len(threads) : threads[k].pc \in InHeartbeat}

\* C22 as claimed: whatever start() and stop() calls were made, at most one
\* background loop is running autonomous_heartbeat on the coordinator.
C22_OneLoop == Cardinality(Running) <= 1

====
